---- MODULE Spec2Model ----
(***************************************************************************)
(* I2cSlave of cocotbext/i2c/i2c_slave.py: four coroutines that react to   *)
(* edges of the master's clock (scl_o) and data (sda_o) wires, share the   *)
(* attributes of one I2cSlave object and drive the slave's data wire       *)
(* (sda_i).  cocotb runs a coroutine without preemption between two        *)
(* awaits, so one action is one wake-up of one coroutine, run up to its    *)
(* next await.                                                             *)
(*                                                                         *)
(* The master is the environment.  It toggles scl_o and sda_o one wire at  *)
(* a time and keeps the clock low for longer than the quarter-bit Timer of *)
(* _falling_scl (line 139): the clock does not rise while that coroutine   *)
(* is in its Timer.  The m_* variables are the master's own record of the  *)
(* transaction it is running (what it sent, how many bytes went by); the   *)
(* slave never reads them.                                                 *)
(***************************************************************************)
EXTENDS Integers, FiniteSets

VARIABLES
    scl_o,          \* clock wire, driven by the master
    sda_o,          \* data wire as driven by the master, observed by the slave
    sda_i,          \* data wire as driven by the slave (0 pulls low, 1 releases)
    addr,           \* self.addr (before __init__ has run: its addr argument)
    start,          \* self.start
    stop,           \* self.stop
    bit_pos,        \* self.bit_pos
    address_phase,  \* self.address_phase
    read_phase,     \* self.read_phase
    write_phase,    \* self.write_phase
    active,         \* self.active
    recv_byte,      \* self.recv_byte
    val,            \* self.val
    unset,          \* attributes __init__ does not create and no coroutine has assigned yet
    falling_pc,     \* _falling_scl: "none" = not started, "edge" = at await FallingEdge,
                    \* "dly" = in wait_clock_dly
    m_open,         \* master: a Start was sent and no Stop since
    m_cnt,          \* master: rising clock edges in the current 9-slot byte (0 = none yet)
    m_tx,           \* master: the bits it clocked out in the current byte, MSB first
    m_bytes,        \* master: 9-slot bytes completed since the Start (saturates)
    m_kind,         \* master: what the first byte after the Start was
    m_seed,         \* master: self.val as it was at the Start of a read of this slave
    a_bit_pos,      \* self.bit_pos of the slave whose _falling_scl has no Timer
    a_start,        \* self.start of that slave
    a_sda_i         \* sda_i as that slave drives it

wires == <<scl_o, sda_o, sda_i>>
slave == <<addr, start, stop, bit_pos, address_phase, read_phase, write_phase,
           active, recv_byte, val, unset>>
master == <<m_open, m_cnt, m_tx, m_bytes, m_kind, m_seed>>
atomic == <<a_bit_pos, a_start, a_sda_i>>
vars == <<wires, slave, falling_pc, master, atomic>>

\* ---------------------------------------------------------------- bounds

\* Read bytes the free-running master may complete (self.val is unbounded).
MaxReads == 2

\* Read bytes the scripted read transaction may complete: past the 8-bit wrap.
LongReads == 128

\* Own addresses the slave is constructed with (0x45 is the default, line 36).
OwnAddrs == {0, 69, 127}

\* addr arguments __init__ is called with: the own addresses and some above 0x7f.
CtorArgs == OwnAddrs \cup {128, 129, 255, 256}

\* ---------------------------------------------------------------- helpers

\* self.val after __init__.
Seed == 129

\* The largest address __init__ accepts.
AddrMask == 127

\* (x >> k) & 0x1
Bit(x, k) == (x \div (2 ^ k)) % 2

\* b << k
Shl(b, k) == b * (2 ^ k)

\* a | b on non-negative integers
RECURSIVE BitOr(_, _)
BitOr(a, b) ==
    IF a = 0 THEN b
    ELSE IF b = 0 THEN a
    ELSE (IF a % 2 = 1 \/ b % 2 = 1 THEN 1 ELSE 0) + 2 * BitOr(a \div 2, b \div 2)

\* ------------------------------------------------- the slave's reactions

\* StartSeen as it would be if line 122 did not look at the clock.
StartSeen_AnyLevel == TRUE

\* _detect_start: the edge of sda_o came with the clock high (line 122).
StartSeen == scl_o' = 1

\* detect_start as it would be without line 127.
detect_start_KeepsActive ==
    IF StartSeen
    THEN /\ start' = TRUE
         /\ bit_pos' = 0
         /\ address_phase' = TRUE
         /\ UNCHANGED <<addr, stop, read_phase, write_phase, active, unset,
                        recv_byte, val, sda_i>>
    ELSE UNCHANGED <<slave, sda_i>>

\* _detect_start, one wake-up at a falling edge of sda_o.
detect_start ==
    IF StartSeen
    THEN /\ start' = TRUE
         /\ bit_pos' = 0
         /\ address_phase' = TRUE
         /\ active' = FALSE
         /\ unset' = unset \ {"active"}
         /\ UNCHANGED <<addr, stop, read_phase, write_phase, recv_byte, val, sda_i>>
    ELSE UNCHANGED <<slave, sda_i>>

\* detect_stop as it would be if a Stop also reset the bit counter.
detect_stop_Resets ==
    IF scl_o' = 1
    THEN /\ stop' = TRUE
         /\ bit_pos' = 0
         /\ UNCHANGED <<addr, start, address_phase, read_phase, write_phase,
                        active, recv_byte, val, unset, sda_i>>
    ELSE UNCHANGED <<slave, sda_i>>

\* _detect_stop, one wake-up at a rising edge of sda_o.
detect_stop ==
    IF scl_o' = 1
    THEN /\ stop' = TRUE
         /\ UNCHANGED <<addr, start, bit_pos, address_phase, read_phase, write_phase,
                        active, recv_byte, val, unset, sda_i>>
    ELSE UNCHANGED <<slave, sda_i>>

\* Counting as it would be if line 142 forgot self.start.
Counting_NoStart == ~(bit_pos = 0)

\* _falling_scl: whether the bit counter steps (line 142).
Counting == start \/ ~(bit_pos = 0)

\* NextBitPos as it would be without the wrap of lines 143-144.
NextBitPos_NoWrap(bp) == bp + 1

\* _falling_scl: the counter's next value when it steps (lines 143-146).
NextBitPos(bp) == IF bp = 9 THEN 1 ELSE bp + 1

\* AckWanted as it would be if line 149 looked at write_phase only.
AckWanted_WriteOnly == write_phase

\* _falling_scl: the byte on the wire is one the slave acknowledges (line 149).
AckWanted == (address_phase /\ active) \/ write_phase

\* DrivenLevel as it would be if line 155 sent the least significant bit first.
DrivenLevel_LsbFirst(bp) ==
    IF AckWanted
    THEN IF bp = 9 THEN 0 ELSE 1
    ELSE IF read_phase
         THEN IF ~(0 = bp) /\ ~(bp >= 9) THEN Bit(val, bp - 1) ELSE 1
         ELSE 1

\* _falling_scl: the level driven for counter value bp (lines 140, 149-155).
DrivenLevel(bp) ==
    IF AckWanted
    THEN IF bp = 9 THEN 0 ELSE 1
    ELSE IF read_phase
         THEN IF ~(0 = bp) /\ ~(bp >= 9) THEN Bit(val, 8 - bp) ELSE 1
         ELSE 1

\* _falling_scl, from the Timer's expiry to the next await (lines 140-155).
falling_scl ==
    LET bp == IF Counting THEN NextBitPos(bit_pos) ELSE bit_pos
    IN  /\ bit_pos' = bp
        /\ start' = IF Counting THEN FALSE ELSE start
        /\ sda_i' = DrivenLevel(bp)
        /\ UNCHANGED <<addr, stop, address_phase, read_phase, write_phase,
                       active, recv_byte, val, unset>>

\* _rising_scl: a data bit is sampled at this counter value (line 160).
Sampling(bp) == ~(0 = bp) /\ ~(bp >= 9)

\* Assemble as it would be without the reset of lines 161-162.
Assemble_NoReset(bp, byte, level) == BitOr(byte, Shl(level, 8 - bp))

\* Assemble as it would be if line 163 shifted the first bit to position 0.
Assemble_LsbFirst(bp, byte, level) ==
    BitOr(IF 1 = bp THEN 0 ELSE byte, Shl(level, bp - 1))

\* _rising_scl: self.recv_byte after the sample (lines 161-163).
Assemble(bp, byte, level) ==
    BitOr(IF 1 = bp THEN 0 ELSE byte, Shl(level, 8 - bp))

\* RecvAddr as it would be if line 169 masked the byte instead of shifting it.
RecvAddr_NoShift(byte) == byte % 128

\* _rising_scl: self.recv_addr, written at line 169 and read at line 170 only.
RecvAddr(byte) == byte \div 2

\* _rising_scl: self.val after a transmitted byte (line 182), a Python int.
NextVal(v) == v + 1

\* ReadDone as it would be if line 180 did not test address_phase.
ReadDone_AnyNinth(rd, ap, bp) == rd /\ bp = 9

\* _rising_scl: a transmitted byte's ninth slot (line 180).
ReadDone(rd, ap, bp) == rd /\ ~ap /\ bp = 9

\* rising_scl as it would be without the two clears of lines 167-168.
rising_scl_NoClear ==
    LET sampling == Sampling(bit_pos)
        rb == IF sampling THEN Assemble(bit_pos, recv_byte, sda_o') ELSE recv_byte
        decode == sampling /\ bit_pos = 8 /\ address_phase
        rd == IF decode THEN (read_phase \/ 1 = sda_o') ELSE read_phase
        wr == IF decode THEN (write_phase \/ ~(1 = sda_o')) ELSE write_phase
    IN  /\ sampling /\ bit_pos # 1 => "recv_byte" \notin unset
        /\ recv_byte' = rb
        /\ unset' = IF sampling THEN unset \ {"recv_byte"} ELSE unset
        /\ read_phase' = rd
        /\ write_phase' = wr
        /\ active' = IF decode THEN (RecvAddr(rb) = addr) ELSE active
        /\ val' = IF ReadDone(rd, address_phase, bit_pos) THEN NextVal(val) ELSE val
        /\ address_phase' = IF bit_pos = 9 THEN FALSE ELSE address_phase
        /\ UNCHANGED <<addr, start, stop, bit_pos, sda_i>>

\* _rising_scl, one wake-up at a rising edge of scl_o (lines 160-184).
rising_scl ==
    LET sampling == Sampling(bit_pos)
        rb == IF sampling THEN Assemble(bit_pos, recv_byte, sda_o') ELSE recv_byte
        decode == sampling /\ bit_pos = 8 /\ address_phase
        rd == IF decode THEN (1 = sda_o') ELSE read_phase
        wr == IF decode THEN ~(1 = sda_o') ELSE write_phase
    IN  /\ sampling /\ bit_pos # 1 => "recv_byte" \notin unset
        /\ recv_byte' = rb
        /\ unset' = IF sampling THEN unset \ {"recv_byte"} ELSE unset
        /\ read_phase' = rd
        /\ write_phase' = wr
        /\ active' = IF decode THEN (RecvAddr(rb) = addr) ELSE active
        /\ val' = IF ReadDone(rd, address_phase, bit_pos) THEN NextVal(val) ELSE val
        /\ address_phase' = IF bit_pos = 9 THEN FALSE ELSE address_phase
        /\ UNCHANGED <<addr, start, stop, bit_pos, sda_i>>

\* ------------------------------------------------- construction

\* Attributes __init__ assigns; self.log is the first (line 37).
InitAttrs == {"log", "addr", "start", "stop", "bit_pos", "address_phase",
              "read_phase", "write_phase", "val"}

\* Attributes only the coroutines assign.
LateAttrs == {"active", "recv_byte"}

\* AddrAccepted as it would be if line 40 tested for a byte.
AddrAccepted_Byte(a) == ~(a > 255)

\* __init__: the address test of line 40.
AddrAccepted(a) == ~(a > AddrMask)

\* __init__ run as a whole (lines 36-89, with _restart, lines 110-117): it
\* raises at line 42 with only self.log assigned, or assigns the attributes,
\* releases sda_i (line 77) and starts the four coroutines.
construct ==
    IF AddrAccepted(addr)
    THEN /\ addr' = addr % (AddrMask + 1)
         /\ start' = FALSE
         /\ stop' = FALSE
         /\ bit_pos' = 0
         /\ address_phase' = FALSE
         /\ read_phase' = FALSE
         /\ write_phase' = FALSE
         /\ val' = Seed
         /\ unset' = unset \ InitAttrs
         /\ sda_i' = 1
         /\ falling_pc' = "edge"
         /\ UNCHANGED <<active, recv_byte>>
    ELSE /\ unset' = unset \ {"log"}
         /\ UNCHANGED <<addr, start, stop, bit_pos, address_phase, read_phase,
                        write_phase, active, recv_byte, val, sda_i, falling_pc>>

\* ------------------------------------------------- the slave without Timer

\* The body of _falling_scl (lines 140-155) run at the falling edge itself,
\* on the attributes as they are at that edge.
atomic_falling_scl ==
    LET bp == IF Counting THEN NextBitPos(bit_pos) ELSE bit_pos
    IN  /\ a_bit_pos' = bp
        /\ a_start' = IF Counting THEN FALSE ELSE start
        /\ a_sda_i' = DrivenLevel(bp)

\* _detect_start (lines 122-125) as it acts on that slave's bit counter.
atomic_detect_start ==
    IF StartSeen
    THEN /\ a_start' = TRUE
         /\ a_bit_pos' = 0
         /\ UNCHANGED a_sda_i
    ELSE UNCHANGED atomic

\* ------------------------------------------------- the master's own record

\* What the first byte after a Start asks for.
Kind(byte) ==
    IF byte \div 2 = addr
    THEN (IF byte % 2 = 1 THEN "own_rd" ELSE "own_wr")
    ELSE (IF byte % 2 = 1 THEN "other_rd" ELSE "other_wr")

\* The slot (1..9) the next rising clock edge belongs to.
Slot == IF m_cnt = 9 THEN 1 ELSE m_cnt + 1

\* The master has sent a Start.
MasterStart ==
    /\ m_open' = TRUE
    /\ m_cnt' = 0
    /\ m_tx' = 0
    /\ m_bytes' = 0
    /\ m_kind' = "none"
    /\ m_seed' = val

\* The master has sent a Stop.
MasterStop ==
    /\ m_open' = FALSE
    /\ m_cnt' = 0
    /\ m_tx' = 0
    /\ m_bytes' = 0
    /\ m_kind' = "none"
    /\ m_seed' = 0

\* The master has raised the clock with sda_o at the level it clocks out.
MasterClock(depth) ==
    IF m_open
    THEN LET tx == IF Slot = 9 THEN m_tx
                   ELSE 2 * (IF Slot = 1 THEN 0 ELSE m_tx) + sda_o
             first == Slot = 8 /\ m_bytes = 0
         IN  /\ m_cnt' = Slot
             /\ m_tx' = tx
             /\ m_bytes' = IF Slot = 9 /\ m_bytes < depth + 2 THEN m_bytes + 1 ELSE m_bytes
             /\ m_kind' = IF first THEN Kind(tx) ELSE m_kind
             /\ m_seed' = IF first /\ Kind(tx) # "own_rd" THEN 0 ELSE m_seed
             /\ UNCHANGED m_open
    ELSE UNCHANGED master

\* ------------------------------------------------- the wires' transitions

\* scl_o falls: _falling_scl leaves its await FallingEdge and starts its Timer.
SclFall ==
    /\ scl_o = 1
    /\ scl_o' = 0
    /\ falling_pc' = "dly"
    /\ atomic_falling_scl
    /\ UNCHANGED <<sda_o, sda_i, slave, master>>

\* The Timer of _falling_scl expires.
SclSettle ==
    /\ falling_pc = "dly"
    /\ falling_pc' = "edge"
    /\ falling_scl
    /\ UNCHANGED <<scl_o, sda_o, master, atomic>>

\* scl_o rises, with at most `depth` read bytes completed: _rising_scl wakes.
SclRise(depth) ==
    /\ scl_o = 0
    /\ falling_pc = "edge"
    /\ scl_o' = 1
    /\ UNCHANGED <<sda_o, falling_pc, atomic>>
    /\ rising_scl
    /\ val' <= Seed + depth
    /\ MasterClock(depth)

\* sda_o falls: _detect_start wakes.
SdaFall ==
    /\ sda_o = 1
    /\ sda_o' = 0
    /\ UNCHANGED <<scl_o, falling_pc>>
    /\ detect_start
    /\ atomic_detect_start
    /\ IF scl_o = 1 THEN MasterStart ELSE UNCHANGED master

\* sda_o rises: _detect_stop wakes.
SdaRise ==
    /\ sda_o = 0
    /\ sda_o' = 1
    /\ UNCHANGED <<scl_o, falling_pc, atomic>>
    /\ detect_stop
    /\ IF scl_o = 1 THEN MasterStop ELSE UNCHANGED master

\* ------------------------------------------------- specifications

\* The object after __init__ (lines 40-89) on a bus at any level.
Init ==
    /\ scl_o \in {0, 1}
    /\ sda_o \in {0, 1}
    /\ sda_i = 1
    /\ addr \in OwnAddrs
    /\ start = FALSE
    /\ stop = FALSE
    /\ bit_pos = 0
    /\ address_phase = FALSE
    /\ read_phase = FALSE
    /\ write_phase = FALSE
    /\ active = FALSE
    /\ recv_byte = 0
    /\ val = Seed
    /\ unset = {"active", "recv_byte"}
    /\ falling_pc = "edge"
    /\ m_open = FALSE
    /\ m_cnt = 0
    /\ m_tx = 0
    /\ m_bytes = 0
    /\ m_kind = "none"
    /\ m_seed = 0
    /\ a_bit_pos = bit_pos
    /\ a_start = start
    /\ a_sda_i = sda_i

\* A master that may move either wire at any time.
Next ==
    \/ SclFall
    \/ SclSettle
    \/ SclRise(MaxReads)
    \/ SdaFall
    \/ SdaRise

Spec == Init /\ [][Next]_vars

\* I2cSlave(...) is called.
Construct ==
    /\ "log" \in unset
    /\ construct
    /\ a_bit_pos' = bit_pos'
    /\ a_start' = start'
    /\ a_sda_i' = sda_i'
    /\ UNCHANGED <<scl_o, sda_o, master>>

\* A wire moves while no coroutine of the slave exists.
WireOnly ==
    /\ falling_pc = "none"
    /\ \/ scl_o' = 1 - scl_o /\ UNCHANGED sda_o
       \/ sda_o' = 1 - sda_o /\ UNCHANGED scl_o
    /\ UNCHANGED <<sda_i, slave, falling_pc, master, atomic>>

\* Before __init__: no attribute exists (the values the variables hold are
\* junk), no coroutine runs, and sda_i is at whatever level it was left.
InitCtor ==
    /\ scl_o \in {0, 1}
    /\ sda_o \in {0, 1}
    /\ sda_i \in {0, 1}
    /\ addr \in CtorArgs
    /\ \E j \in BOOLEAN :
           /\ start = j /\ stop = j
           /\ address_phase = j /\ read_phase = j /\ write_phase = j
           /\ bit_pos = (IF j THEN 9 ELSE 0)
           /\ val = (IF j THEN 0 ELSE Seed)
    /\ active = FALSE
    /\ recv_byte = 0
    /\ unset = InitAttrs \cup LateAttrs
    /\ falling_pc = "none"
    /\ m_open = FALSE
    /\ m_cnt = 0
    /\ m_tx = 0
    /\ m_bytes = 0
    /\ m_kind = "none"
    /\ m_seed = 0
    /\ a_bit_pos = bit_pos
    /\ a_start = start
    /\ a_sda_i = sda_i

\* The bus before, during and after the construction of the slave.
NextCtor ==
    \/ Construct
    \/ WireOnly
    \/ falling_pc # "none" /\ Next

SpecCtor == InitCtor /\ [][NextCtor]_vars

\* The level the reading master holds sda_o at for the slot it is about to
\* clock: the bits of (addr << 1) | 1 in the first byte, released afterwards,
\* and either level (ACK or NACK) in a data byte's ninth slot.
ReadLevels ==
    IF m_bytes = 0
    THEN (IF Slot = 9 THEN {1} ELSE {Bit(2 * addr + 1, 8 - Slot)})
    ELSE (IF Slot = 9 THEN {0, 1} ELSE {1})

\* The reading master sends a Start, the first or a repeated one.
RdStart ==
    /\ scl_o = 1
    /\ SdaFall

\* The reading master sends a Stop.
RdStop ==
    /\ scl_o = 1
    /\ SdaRise

\* The reading master lowers the clock.
RdSclFall ==
    /\ m_open
    /\ SclFall

\* The reading master sets up sda_o while the clock is low.
RdSda ==
    /\ scl_o = 0
    /\ (SdaFall \/ SdaRise)
    /\ m_open => sda_o' \in ReadLevels

\* The reading master raises the clock on the level of its script.
RdSclRise ==
    /\ m_open
    /\ sda_o \in ReadLevels
    /\ SclRise(LongReads)

InitRead ==
    /\ Init
    /\ scl_o = 1
    /\ sda_o = 1

\* A master whose every transaction is a read of this slave; it may stop or
\* restart a transaction at any slot.
NextRead ==
    \/ RdStart
    \/ RdStop
    \/ RdSclFall
    \/ SclSettle
    \/ RdSda
    \/ RdSclRise

SpecRead == InitRead /\ [][NextRead]_vars

\* ------------------------------------------------- sanity of the model

TypeOK ==
    /\ scl_o \in {0, 1} /\ sda_o \in {0, 1} /\ sda_i \in {0, 1}
    /\ addr \in Nat
    /\ "addr" \notin unset => addr \in 0..AddrMask
    /\ start \in BOOLEAN /\ stop \in BOOLEAN
    /\ bit_pos \in Nat
    /\ address_phase \in BOOLEAN /\ read_phase \in BOOLEAN /\ write_phase \in BOOLEAN
    /\ active \in BOOLEAN
    /\ recv_byte \in 0..255
    /\ val \in Nat
    /\ unset \subseteq InitAttrs \cup LateAttrs
    /\ falling_pc \in {"none", "edge", "dly"}
    /\ falling_pc = "dly" => scl_o = 0
    /\ a_bit_pos \in Nat /\ a_start \in BOOLEAN /\ a_sda_i \in {0, 1}

\* No coroutine reads an attribute before some coroutine has assigned it.
NoAttributeError ==
    falling_pc # "none" =>
        /\ address_phase => "active" \notin unset
        /\ Sampling(bit_pos) /\ bit_pos # 1 => "recv_byte" \notin unset
        /\ write_phase => "active" \notin unset

\* ------------------------------------------------- steps, as the claims name them

\* The 8 bits of the first byte after a Start are clocked, its ninth rise is not.
FirstByteClocked == m_open /\ m_bytes = 0 /\ m_cnt = 8

\* _falling_scl has reacted to the last clock fall.
Settled == scl_o = 0 /\ falling_pc = "edge"

StartStep == sda_o = 1 /\ sda_o' = 0 /\ scl_o = 1
StopStep == sda_o = 0 /\ sda_o' = 1 /\ scl_o = 1
FallStep == scl_o = 1 /\ scl_o' = 0
SettleStep == falling_pc = "dly" /\ falling_pc' = "edge"
RiseStep == scl_o = 0 /\ scl_o' = 1

\* ------------------------------------------------- claims

\* C1: after the 8 bits of a first byte (a << 1) | 0 with a # addr, active is
\* false and write_phase is true, and once _falling_scl has moved bit_pos to 9
\* for that byte's ninth slot, sda_i is 1: the slave does not pull the line
\* low for a write addressed to another device.
C1_MismatchedWriteNotAcked ==
    FirstByteClocked /\ m_tx % 2 = 0 /\ m_tx \div 2 # addr =>
        /\ ~active
        /\ write_phase
        /\ Settled => bit_pos = 9 /\ sda_i = 1

\* C2: a Start followed by the 8 clocked bits of (a << 1) | d gives, from the
\* 8th rise on and when bit_pos reaches 9, active = (a = addr), read_phase =
\* (d = 1) and write_phase = (d = 0); and active becomes or stays true over an
\* address decode only when the decoded 7-bit address is addr.
C2_State ==
    FirstByteClocked =>
        /\ active = (m_tx \div 2 = addr)
        /\ read_phase = (m_tx % 2 = 1)
        /\ write_phase = (m_tx % 2 = 0)
        /\ Settled => bit_pos = 9

C2_Step ==
    /\ RiseStep /\ bit_pos = 8 /\ address_phase =>
           active' = (RecvAddr(recv_byte') = addr)
    /\ active' /\ ~active => RiseStep /\ bit_pos = 8 /\ address_phase

C2_AddressRoundTrip == [](C2_State) /\ [][C2_Step]_vars

\* C2 witness: in a transaction that follows a Stop, the address byte of a
\* read of this slave is clocked and bit_pos has reached 9.
C2_Witness ==
    /\ FirstByteClocked /\ Settled /\ bit_pos = 9
    /\ stop
    /\ m_tx = 2 * addr + 1
    /\ active /\ read_phase /\ ~write_phase

\* C3: self.val is a byte: it stays in 0..255, and the increment taken at 255
\* gives 0.
C3_ValIsByte ==
    [][/\ val' \in 0..255
       /\ val = 255 /\ val' # val => val' = 0]_vars

\* C4: self.val changes only in the wake-up of _rising_scl taken with
\* read_phase true, address_phase false and bit_pos = 9, and there by exactly
\* +1 whatever level sda_o shows; every other reaction leaves it unchanged.
C4_Step ==
    /\ val' # val =>
           RiseStep /\ read_phase /\ ~address_phase /\ bit_pos = 9 /\ val' = val + 1
    /\ RiseStep /\ read_phase /\ ~address_phase /\ bit_pos = 9 => val' = val + 1

C4_ValOnlyOnReadByte == [][C4_Step]_vars

\* C4 witness: a second read byte has just been counted on a NACK (sda_o = 1).
C4_Witness ==
    /\ scl_o = 1 /\ bit_pos = 9 /\ sda_o = 1
    /\ read_phase /\ ~address_phase
    /\ m_open /\ m_kind = "own_rd" /\ m_bytes = 3
    /\ val = m_seed + 2

\* C5: bit_pos is in 0..9 in every reachable state.
C5_BitPosRange == bit_pos \in 0..9

\* C5 witness: the counter has wrapped from 9 to 1 for a second byte.
C5_Witness == Settled /\ bit_pos = 1 /\ m_open /\ m_bytes = 1 /\ m_cnt = 9

\* C6: only a Start sets bit_pos to 0; a wake-up of _falling_scl with start
\* true or bit_pos # 0 moves bit_pos by +1 (9 to 1) and clears start; one with
\* start false and bit_pos = 0 leaves bit_pos at 0; the clock fall itself, a
\* rising edge and a Stop never change bit_pos.
C6_Step ==
    /\ bit_pos' = 0 /\ bit_pos # 0 => StartStep
    /\ SettleStep /\ (start \/ bit_pos # 0) =>
           /\ bit_pos' = (IF bit_pos = 9 THEN 1 ELSE bit_pos + 1)
           /\ ~start'
    /\ SettleStep /\ ~start /\ bit_pos = 0 => bit_pos' = 0
    /\ RiseStep \/ StopStep \/ FallStep => bit_pos' = bit_pos

C6_BitPosStepping == [][C6_Step]_vars

\* C6 witness: after a wrap from 9 to 1 the counter has stepped on to 2.
C6_Witness == Settled /\ bit_pos = 2 /\ ~start /\ m_open /\ m_bytes = 1 /\ m_cnt = 1

\* C7: a rise of sda_o with the clock high sets stop and changes no other
\* attribute nor sda_i; a rise of sda_o with the clock low changes nothing;
\* once stop is true it stays true.
C7_Step ==
    /\ StopStep =>
           /\ stop'
           /\ UNCHANGED <<bit_pos, start, address_phase, read_phase, write_phase,
                          active, recv_byte, val, sda_i>>
    /\ sda_o = 0 /\ sda_o' = 1 /\ scl_o = 0 => UNCHANGED <<slave, sda_i>>
    /\ stop => stop'

C7_StopDetection == [][C7_Step]_vars

\* C7 witness: a Stop in the middle of an address byte left the counter and
\* address_phase as they were, and the clock went on.
C7_Witness == stop /\ address_phase /\ bit_pos = 5 /\ start = FALSE /\ scl_o = 0

\* C8: whenever address_phase is true, read_phase and write_phase are false.
C8_PhaseFlagsLegal == address_phase => ~read_phase /\ ~write_phase

\* C9: in a read of this slave (first byte (addr << 1) | 1) the slave pulls
\* sda_i low in the address byte's ninth slot; in the k-th data byte it drives
\* at bit_pos p in 1..8 bit (8 - p) of (seed + k - 1) mod 256, seed being
\* self.val at the Start, and releases sda_i in the ninth slot; self.val is
\* seed + k - 1 throughout the k-th data byte and seed + k after the rising edge
\* of its ninth slot, and is still seed after the address byte's ninth slot.
ReadByte == (m_seed + m_bytes - 1) % 256

C9_MatchedRead ==
    m_open /\ m_kind = "own_rd" =>
        /\ m_bytes = 0 =>
               /\ val = m_seed
               /\ Settled => bit_pos = 9 /\ sda_i = 0
        /\ m_bytes >= 1 =>
               /\ val = m_seed + m_bytes - 1
               /\ Settled => bit_pos = Slot
               /\ Settled /\ Slot \in 1..8 => sda_i = Bit(ReadByte, 8 - Slot)
               /\ scl_o = 1 /\ m_cnt \in 1..8 => sda_i = Bit(ReadByte, 8 - m_cnt)
               /\ Settled /\ Slot = 9 => sda_i = 1

\* C9 witness: the slave drives bit 0 of the data byte that follows 0xFF, which
\* is 0x00, in a transaction whose seed was above the constructor's.
C9_Witness ==
    /\ m_open /\ m_kind = "own_rd"
    /\ Settled /\ bit_pos = 8 /\ sda_i = 0
    /\ m_seed > Seed
    /\ val = 256

\* C10: a Start at any bit_pos and in any phase sets bit_pos = 0, start and
\* address_phase at once; the next wake-up of _falling_scl moves bit_pos to 1;
\* the rising edge after it leaves in recv_byte only the bit it samples; and
\* through the new address byte recv_byte holds exactly the bits clocked since
\* the Start.
C10_State ==
    m_open /\ m_bytes = 0 /\ m_cnt \in 1..8 => recv_byte = m_tx * 2 ^ (8 - m_cnt)

C10_Step ==
    /\ StartStep => bit_pos' = 0 /\ start' /\ address_phase'
    /\ SettleStep /\ start => bit_pos' = 1
    /\ RiseStep /\ bit_pos = 1 => recv_byte' = sda_o * 128

C10_StartMidTransaction == [](C10_State) /\ [][C10_Step]_vars

\* C10 witness: a Start came while a write was under way, with no Stop ever,
\* and the first bit of the new address byte, a 0, is all recv_byte holds.
C10_Witness ==
    /\ m_open /\ m_bytes = 0 /\ m_cnt = 1 /\ scl_o = 1
    /\ write_phase /\ address_phase /\ ~stop
    /\ recv_byte = 0 /\ sda_o = 0

\* C11: __init__ called with an address above 0x7f raises before any coroutine
\* is started and before sda_i is driven, and nothing of the slave runs
\* afterwards; called with an address in 0..0x7f it leaves bit_pos = 0, start,
\* stop, address_phase, read_phase and write_phase false, val = 0x81 and sda_i
\* released, with the coroutines started.
ConstructStep == "log" \in unset /\ "log" \notin unset'

ConstructFailed == "log" \notin unset /\ falling_pc = "none"

C11_Step ==
    /\ ConstructStep /\ addr > 127 =>
           /\ falling_pc' = "none"
           /\ sda_i' = sda_i
           /\ unset' = unset \ {"log"}
    /\ ConstructStep /\ addr \in 0..127 =>
           /\ falling_pc' = "edge"
           /\ addr' = addr
           /\ bit_pos' = 0
           /\ ~start' /\ ~stop'
           /\ ~address_phase' /\ ~read_phase' /\ ~write_phase'
           /\ val' = 129
           /\ sda_i' = 1
    /\ ConstructFailed => UNCHANGED <<sda_i, slave, falling_pc>>

C11_Construction == [][C11_Step]_vars

\* C11 witness: construction with address 0x80 has failed on a bus whose slave
\* data wire was low, and the wire is still low with both master wires low.
C11_Witness ==
    /\ ConstructFailed /\ addr = 128
    /\ sda_i = 0 /\ scl_o = 0 /\ sda_o = 0

\* C12 as stated: a Start writes only start, bit_pos and address_phase, a Stop
\* writes only stop, and active changes only when the 8th bit of an address
\* byte is sampled.
C12_Original ==
    [][/\ StartStep =>
              UNCHANGED <<stop, read_phase, write_phase, active, recv_byte, val, sda_i>>
       /\ StopStep =>
              UNCHANGED <<start, bit_pos, address_phase, read_phase, write_phase,
                          active, recv_byte, val, sda_i>>
       /\ active' # active => RiseStep /\ bit_pos = 8 /\ address_phase]_vars

\* C12 as amended: a Stop writes only stop, so active keeps its value through
\* any Stop; a Start writes start, bit_pos and address_phase and also sets
\* active to false (line 127); active changes only at a Start, to false, or
\* when the 8th bit of an address byte is sampled, and is therefore false from
\* a Start until that sample.
C12_State ==
    address_phase /\ active => bit_pos = 9 \/ (bit_pos = 8 /\ ~Settled)

C12_Step ==
    /\ StartStep =>
           /\ start' /\ bit_pos' = 0 /\ address_phase' /\ ~active'
           /\ UNCHANGED <<stop, read_phase, write_phase, recv_byte, val, sda_i>>
    /\ StopStep =>
           /\ stop'
           /\ UNCHANGED <<start, bit_pos, address_phase, read_phase, write_phase,
                          active, recv_byte, val, sda_i>>
    /\ active' # active =>
           \/ StartStep /\ ~active'
           \/ RiseStep /\ bit_pos = 8 /\ address_phase

C12_ActiveAcrossTransactions == [](C12_State) /\ [][C12_Step]_vars

\* C12 witness: a read of this slave was stopped and active is still true after
\* the Stop, with the clock running on.
C12_Witness ==
    /\ active /\ stop /\ ~m_open /\ ~address_phase
    /\ read_phase /\ val > Seed /\ Settled /\ bit_pos = 3

\* C13: read_phase and write_phase are never both true.
C13_DirectionExclusive == ~(read_phase /\ write_phase)

\* C13 witness: a write is under way after an earlier transaction completed a
\* read byte; only write_phase is set.
C13_Witness ==
    /\ write_phase /\ ~read_phase /\ ~address_phase
    /\ val > Seed /\ Settled /\ bit_pos = 4

\* C14: right after every Start, bit_pos is 0 and read_phase and write_phase
\* are both false.
C14_ResetOnStart ==
    [][StartStep => bit_pos' = 0 /\ ~read_phase' /\ ~write_phase']_vars

\* C15: within every byte, after the rising edge of slot p in 1..8 recv_byte
\* holds the bits clocked so far in this byte, most significant first and
\* nothing else: the rise at bit_pos = 1 leaves only that bit (at weight 128),
\* each later rise adds its bit at weight 2^(8-p), and after the 8th rise
\* recv_byte is the sum of b_p * 2^(8-p), whatever recv_byte held before the
\* byte.  Rising edges at bit_pos 0 or 9 leave recv_byte unchanged.
C15_State ==
    m_open /\ m_cnt \in 1..8 => recv_byte = m_tx * 2 ^ (8 - m_cnt)

C15_Step ==
    /\ RiseStep /\ bit_pos = 1 => recv_byte' = sda_o * 128
    /\ RiseStep /\ bit_pos \in 2..8 =>
           /\ recv_byte % 2 ^ (9 - bit_pos) = 0
           /\ recv_byte' = recv_byte + sda_o * 2 ^ (8 - bit_pos)
    /\ RiseStep /\ bit_pos \in {0, 9} => recv_byte' = recv_byte

C15_ByteAssembly == [](C15_State) /\ [][C15_Step]_vars

\* C15 witness: the data byte 0xA5 of a write to this slave has been
\* assembled over the address byte 0x8A that recv_byte held before.
C15_Witness ==
    /\ m_open /\ m_kind = "own_wr" /\ addr = 69
    /\ m_bytes = 1 /\ m_cnt = 8 /\ scl_o = 1
    /\ recv_byte = 165

\* C16: in every reachable state, whatever went before (a Start in the middle
\* of a byte, a missing Stop, stale phase flags), once a Start and the 8
\* clocked bits of (addr << 1) | dir have been seen active is true, and at the
\* 9th clock fall bit_pos is 9 and sda_i is driven low; and no reachable state
\* disables the reaction to a Start, to a falling or to a rising clock edge.
C16_RecoveryNeverStalls ==
    /\ FirstByteClocked /\ m_tx \div 2 = addr =>
           /\ active
           /\ Settled => bit_pos = 9 /\ sda_i = 0
    /\ sda_o = 1 => ENABLED SdaFall
    /\ scl_o = 1 => ENABLED SclFall
    /\ falling_pc = "dly" => ENABLED SclSettle
    /\ scl_o = 0 /\ falling_pc = "edge" /\ val < Seed + MaxReads =>
           ENABLED SclRise(MaxReads)

\* C16 witness: a read of this slave completed a byte and no Stop was ever
\* sent; a new Start and the address byte of another read of this slave are
\* acknowledged at the 9th slot.
C16_Witness ==
    /\ FirstByteClocked /\ Settled /\ bit_pos = 9 /\ sda_i = 0
    /\ m_tx = 2 * addr + 1 /\ active
    /\ ~stop /\ val > Seed

\* C17: after a Start and an address byte (a << 1) | 1 with a # addr, until
\* the next Start no falling-edge reaction drives sda_i low and val never
\* changes.
C17_SilentOnForeignRead ==
    [][m_open /\ m_kind = "other_rd" =>
           /\ val' = val
           /\ SettleStep => sda_i' = 1]_vars

\* C18: a falling-edge reaction that ends with address_phase true and bit_pos
\* in 1..8 leaves sda_i released (1).
C18_ReleasedDuringAddress ==
    [][SettleStep /\ address_phase' /\ bit_pos' \in 1..8 => sda_i' = 1]_vars

\* C19: after a Stop and until the next Start, no falling-edge reaction drives
\* sda_i low and no rising-edge reaction changes val.
C19_StopReturnsToIdle ==
    [][stop /\ ~m_open =>
           /\ RiseStep => val' = val
           /\ SettleStep => sda_i' = 1]_vars

\* C20: with a clock-low phase that outlasts the Timer, the slave whose
\* falling-edge update runs at the clock fall and the slave whose update runs
\* after the Timer, with wake-ups of _detect_start and _detect_stop on edges
\* of sda_o before and after it, have the same bit_pos, start and sda_i
\* whenever _falling_scl is back at its await, so at every rising clock edge;
\* and while the clock stays low nothing changes any other attribute, so the
\* two slaves agree on the whole object.
C20_State ==
    falling_pc = "edge" =>
        a_bit_pos = bit_pos /\ a_start = start /\ a_sda_i = sda_i

C20_Step ==
    /\ scl_o = 0 /\ scl_o' = 0 =>
           UNCHANGED <<addr, stop, address_phase, read_phase, write_phase,
                       active, recv_byte, val, unset>>
    /\ scl_o = 0 /\ scl_o' = 0 /\ ~SettleStep => UNCHANGED <<bit_pos, start, sda_i>>
    /\ RiseStep =>
           a_bit_pos = bit_pos /\ a_start = start /\ a_sda_i = sda_i

C20_SettlingDelay == [](C20_State) /\ [][C20_Step]_vars

\* C20 witness: in the second bit of a read byte the master clocked a 1 and
\* has pulled sda_o low during the Timer; the delayed update is still pending
\* and the two slaves differ in bit_pos and in the level they drive.
C20_Witness ==
    /\ falling_pc = "dly" /\ m_open /\ m_cnt \in 1..8 /\ m_tx % 2 = 1
    /\ sda_o = 0
    /\ read_phase /\ ~address_phase
    /\ a_bit_pos = bit_pos + 1 /\ a_sda_i # sda_i

====
